---- MODULE Spec2Model ----
(***************************************************************************)
(* Transaction status store of the explorer                                *)
(* (explorer/src/providers/transactions/index.tsx): the reducer, the       *)
(* provider's cluster effect and the asynchronous fetchTransactionStatus.  *)
(***************************************************************************)
EXTENDS Integers, Sequences, FiniteSets, TLC

\* ------------------------------------------------------------------ bounds
\* number of fetchTransactionStatus invocations in one behaviour
MaxFetches == 2
\* largest slot and largest confirmations count of the wide status responses
MaxSlot == 2
MaxConfirmations == 1

\* ------------------------------------------------------------ JS values
\* JavaScript values are tagged so that values of different types compare.
Undefined == [kind |-> "undefined"]
Null == [kind |-> "null"]
Num(n) == [kind |-> "number", n |-> n]
Str(s) == [kind |-> "string", s |-> s]

\* typeof v
TypeOf(v) == IF v.kind = "null" THEN "object" ELSE v.kind

\* { ...obj, ...overrides }: object spread followed by overriding keys
Spread(obj, overrides) ==
  [k \in (DOMAIN obj) \cup (DOMAIN overrides) |->
     IF k \in DOMAIN overrides THEN overrides[k] ELSE obj[k]]

\* obj[key]: reading a key an object lacks gives undefined
Get(obj, key) == IF key \in DOMAIN obj THEN obj[key] ELSE Undefined

\* the empty object {}
EmptyObject == [k \in {} |-> Undefined]

\* if (v): the values JavaScript takes as true
Truthy(v) == v \notin {Undefined, Null, Num(0), Str("")}

\* the names every object literal inherits from Object.prototype (those among
\* the model's signatures) and the value found there: a function, which is
\* truthy and has no own enumerable property
ObjectPrototypeKeys == {"constructor"}
PrototypeMember == [kind |-> "function"]

\* obj[key] on an object literal: own keys first, then Object.prototype
Lookup(obj, key) ==
  IF key \in DOMAIN obj THEN obj[key]
  ELSE IF key \in ObjectPrototypeKeys THEN PrototypeMember
  ELSE Undefined

\* what { ...v } copies: the own enumerable properties of v
OwnProperties(v) == IF v = PrototypeMember THEN EmptyObject ELSE v

\* ---------------------------------------------------------------- domains
Urls == {"u1", "u2"}
Signatures == {"s1", "constructor"}

\* enum FetchStatus
Fetching == "Fetching"
FetchFailed == "FetchFailed"
Fetched == "Fetched"
FetchStatus == {Fetching, FetchFailed, Fetched}

\* enum ActionType
UpdateStatusType == "UpdateStatus"
FetchSignatureType == "FetchSignature"
ClearType == "Clear"

\* enum ClusterStatus: the provider only tells Connecting from the rest
Connecting == "Connecting"
ClusterStatus == {"Connected", Connecting}

\* the fixture cache of ./cached: one signature of one cluster
CachedUrl == "u1"
CACHED_STATUSES ==
  [s \in {"s1"} |->
     [slot |-> Num(0), result |-> [err |-> Null],
      timestamp |-> Num(0), confirmations |-> Str("max")]]
isCached(url, signature) == url = CachedUrl /\ signature \in DOMAIN CACHED_STATUSES

\* what getSignatureStatus can resolve to: null (no match) or a SignatureStatus
StatusValue(slot, err, confirmations) ==
  [kind |-> "status", slot |-> slot, err |-> err, confirmations |-> confirmations]
StatusValues ==
  {Null, StatusValue(Num(2), Str("err"), Num(0))}
\* the wider range of SignatureStatus values a single fetch is run against
WideStatusValues ==
  {Null} \cup
  {StatusValue(Num(n), e, c) :
     n \in 1..MaxSlot, e \in {Null, Str("err")},
     c \in {Undefined, Null} \cup {Num(k) : k \in 0..MaxConfirmations}}
\* what getBlockTime can resolve to
BlockTimeValues == {Null, Num(1)}

\* ------------------------------------------------------------------ state
VARIABLES
  state,       \* the reducer's State: [url, transactions]
  cluster,     \* what useCluster() supplies: [status, url]
  fetches,     \* fetchTransactionStatus invocations: position and locals
  log,         \* per invocation, its dispatches, queries and their outcomes, in order
  superseded,  \* invocations in flight since a Clear of another url was dispatched
  cleared,     \* invocations in flight since any Clear was dispatched
  effectPending, \* the provider rendered and its effect has not run yet
  applied      \* the latest direct application of the reducer: [action, before]

vars == <<state, cluster, fetches, log, superseded, cleared, effectPending,
         applied>>

Fetches == 1..MaxFetches

\* -------------------------------------------------------------- the reducer
ClearAction(url) == [type |-> ClearType, url |-> url]
FetchSignatureAction(url, signature) ==
  [type |-> FetchSignatureType, signature |-> signature, url |-> url]
UpdateStatusAction(url, signature, fetchStatus, info) ==
  [type |-> UpdateStatusType, signature |-> signature,
   fetchStatus |-> fetchStatus, info |-> info, url |-> url]

\* { [signature]: transaction }: the other entries are not carried over
WithTransactionOnly(transactions, signature, transaction) ==
  [x \in {signature} |-> transaction]

\* { ...state.transactions, [signature]: transaction }
WithTransaction(transactions, signature, transaction) ==
  Spread(transactions, [x \in {signature} |-> transaction])

\* FetchSignature that resets fetchStatus of a known record but not its info
FetchSignatureCaseKeepsInfo(st, action) ==
  LET signature == action.signature
      transaction == Lookup(st.transactions, signature) IN
  IF Truthy(transaction) THEN
    [st EXCEPT !.transactions =
       WithTransaction(st.transactions, action.signature,
         Spread(OwnProperties(transaction), [fetchStatus |-> Fetching]))]
  ELSE
    [st EXCEPT !.transactions =
       WithTransaction(st.transactions, action.signature,
         [signature |-> action.signature, fetchStatus |-> Fetching])]

\* case ActionType.FetchSignature
FetchSignatureCase(st, action) ==
  LET signature == action.signature
      transaction == Lookup(st.transactions, signature) IN
  IF Truthy(transaction) THEN
    [st EXCEPT !.transactions =
       WithTransaction(st.transactions, action.signature,
         Spread(OwnProperties(transaction), [fetchStatus |-> Fetching, info |-> Undefined]))]
  ELSE
    [st EXCEPT !.transactions =
       WithTransaction(st.transactions, action.signature,
         [signature |-> action.signature, fetchStatus |-> Fetching])]

\* UpdateStatus that only completes a record still Fetching (first write wins)
UpdateStatusCaseFirstWins(st, action) ==
  LET transaction == Lookup(st.transactions, action.signature) IN
  IF Truthy(transaction)
     /\ "fetchStatus" \in DOMAIN OwnProperties(transaction)
     /\ OwnProperties(transaction).fetchStatus = Fetching THEN
    [st EXCEPT !.transactions =
       WithTransaction(st.transactions, action.signature,
         Spread(OwnProperties(transaction),
                [fetchStatus |-> action.fetchStatus, info |-> action.info]))]
  ELSE st

\* UpdateStatus that keeps the old info when the action carries none
UpdateStatusCaseKeepsInfo(st, action) ==
  LET transaction == Lookup(st.transactions, action.signature) IN
  IF Truthy(transaction) THEN
    [st EXCEPT !.transactions =
       WithTransaction(st.transactions, action.signature,
         Spread(OwnProperties(transaction),
                [fetchStatus |-> action.fetchStatus,
                 info |-> IF action.info = Undefined
                          THEN Get(OwnProperties(transaction), "info")
                          ELSE action.info]))]
  ELSE st

\* case ActionType.UpdateStatus
UpdateStatusCase(st, action) ==
  LET transaction == Lookup(st.transactions, action.signature) IN
  IF Truthy(transaction) THEN
    [st EXCEPT !.transactions =
       WithTransaction(st.transactions, action.signature,
         Spread(OwnProperties(transaction),
                [fetchStatus |-> action.fetchStatus, info |-> action.info]))]
  ELSE st

\* Clear that replaces the url but keeps the map
ClearCaseKeeps(st, action) == [st EXCEPT !.url = action.url]

\* the Clear branch
ClearCase(st, action) == [url |-> action.url, transactions |-> EmptyObject]

\* reducer whose url guard covers UpdateStatus only
reducerFetchUnguarded(st, action) ==
  IF action.type = ClearType THEN ClearCase(st, action)
  ELSE IF action.type = UpdateStatusType /\ action.url # st.url THEN st
  ELSE IF action.type = FetchSignatureType THEN FetchSignatureCase(st, action)
  ELSE IF action.type = UpdateStatusType THEN UpdateStatusCase(st, action)
  ELSE st

\* reducer without the url guard
reducerUnguarded(st, action) ==
  IF action.type = ClearType THEN ClearCase(st, action)
  ELSE IF action.type = FetchSignatureType THEN FetchSignatureCase(st, action)
  ELSE IF action.type = UpdateStatusType THEN UpdateStatusCase(st, action)
  ELSE st

\* reducer whose url guard covers FetchSignature only
reducerUpdateUnguarded(st, action) ==
  IF action.type = ClearType THEN ClearCase(st, action)
  ELSE IF action.type = FetchSignatureType /\ action.url # st.url THEN st
  ELSE IF action.type = FetchSignatureType THEN FetchSignatureCase(st, action)
  ELSE IF action.type = UpdateStatusType THEN UpdateStatusCase(st, action)
  ELSE st

reducer(st, action) ==
  IF action.type = ClearType THEN ClearCase(st, action)
  ELSE IF action.url # st.url THEN st
  ELSE IF action.type = FetchSignatureType THEN FetchSignatureCase(st, action)
  ELSE IF action.type = UpdateStatusType THEN UpdateStatusCase(st, action)
  ELSE st

\* dispatch the actions of a sequence, in order
RECURSIVE ReduceAll(_, _)
ReduceAll(st, actions) ==
  IF actions = <<>> THEN st
  ELSE ReduceAll(reducer(st, Head(actions)), Tail(actions))

\* ------------------------------------------------------------------- Init
IdleFetch ==
  [pc |-> "idle", signature |-> "", url |-> "",
   value |-> Undefined, blockTime |-> Null]

NotApplied == [action |-> [type |-> "none"], before |-> EmptyObject]

\* an effect that clears on every cluster update, whatever the status
EffectActionsAlways(c) == <<ClearAction(c.url)>>

\* TransactionsProvider's effect for the current cluster: Clear while Connecting
EffectActions(c) ==
  IF c.status = Connecting THEN <<ClearAction(c.url)>> ELSE <<>>

\* the provider's first render: useReducer's initial state; the effect's
\* first run is still to come
Init ==
  /\ cluster \in [status : ClusterStatus, url : Urls]
  /\ state = [url |-> cluster.url, transactions |-> EmptyObject]
  /\ effectPending = TRUE
  /\ fetches = [i \in Fetches |-> IdleFetch]
  /\ log = [i \in Fetches |-> <<>>]
  /\ superseded = {}
  /\ cleared = {}
  /\ applied = NotApplied

\* ------------------------------------------------------------ the provider
InFlight(i) == fetches[i].pc \in {"awaitStatus", "awaitBlockTime"}

\* a render with a changed dependency of the effect: clusterStatus or url, or,
\* with both as they were, cluster or testFlag; the effect of the render
\* before has run by then
ClusterUpdate(status, url) ==
  /\ ~effectPending
  /\ cluster' = [status |-> status, url |-> url]
  /\ effectPending' = TRUE
  /\ UNCHANGED <<state, fetches, log, superseded, cleared, applied>>

\* the effect of the latest render runs
RunEffect ==
  /\ effectPending
  /\ effectPending' = FALSE
  /\ state' = ReduceAll(state, EffectActions(cluster))
  /\ superseded' = superseded \cup
       {i \in Fetches : /\ InFlight(i)
                        /\ \E k \in 1..Len(EffectActions(cluster)) :
                             EffectActions(cluster)[k].url # fetches[i].url}
  /\ cleared' = cleared \cup
       {i \in Fetches : InFlight(i) /\ EffectActions(cluster) # <<>>}
  /\ UNCHANGED <<cluster, fetches, log, applied>>

\* --------------------------------------------------- fetchTransactionStatus
\* entries of an invocation's log
Dispatched(action) == [ev |-> "dispatch", action |-> action]
Queried(name) == [ev |-> "query", name |-> name]
Resolved(name, value) == [ev |-> "resolve", name |-> name, value |-> value]
Rejected(name) == [ev |-> "reject", name |-> name]

\* info whose confirmations are taken by truthiness instead of by type
ResolveInfoTruthy(value, blockTime) ==
  LET timestamp == IF blockTime # Null THEN blockTime ELSE Str("unavailable")
      confirmations ==
        IF TypeOf(value.confirmations) = "number" /\ value.confirmations # Num(0)
        THEN value.confirmations ELSE Str("max")
  IN  [slot |-> value.slot, timestamp |-> timestamp,
       confirmations |-> confirmations, result |-> [err |-> value.err]]

\* the info object built from a matched status and the block time
ResolveInfo(value, blockTime) ==
  LET timestamp == IF blockTime # Null THEN blockTime ELSE Str("unavailable")
      confirmations ==
        IF TypeOf(value.confirmations) = "number"
        THEN value.confirmations ELSE Str("max")
  IN  [slot |-> value.slot, timestamp |-> timestamp,
       confirmations |-> confirmations, result |-> [err |-> value.err]]

\* invocations are numbered in the order they are made
CanInvoke(i) ==
  /\ fetches[i].pc = "idle"
  /\ \A j \in Fetches : j < i => fetches[j].pc # "idle"

\* a call for a cached pair that skips the cache and awaits the status query
FetchCachedAwaits(i, signature, url) ==
  LET first == FetchSignatureAction(url, signature) IN
  /\ CanInvoke(i)
  /\ isCached(url, signature)
  /\ fetches' = [fetches EXCEPT ![i] =
       [IdleFetch EXCEPT !.pc = "awaitStatus", !.signature = signature, !.url = url]]
  /\ state' = reducer(state, first)
  /\ log' = [log EXCEPT ![i] = <<Dispatched(first), Queried("getSignatureStatus")>>]
  /\ UNCHANGED <<cluster, superseded, cleared, effectPending, applied>>

\* a call for a pair of the fixture cache: both dispatches, no await between
FetchCached(i, signature, url) ==
  LET first == FetchSignatureAction(url, signature)
      update == UpdateStatusAction(url, signature, Fetched, CACHED_STATUSES[signature])
  IN
  /\ CanInvoke(i)
  /\ isCached(url, signature)
  /\ fetches' = [fetches EXCEPT ![i] =
       [IdleFetch EXCEPT !.pc = "done", !.signature = signature, !.url = url]]
  /\ state' = ReduceAll(state, <<first, update>>)
  /\ log' = [log EXCEPT ![i] = <<Dispatched(first), Dispatched(update)>>]
  /\ UNCHANGED <<cluster, superseded, cleared, effectPending, applied>>

\* a call that issues the query before it dispatches FetchSignature
FetchQueryFirst(i, signature, url) ==
  LET first == FetchSignatureAction(url, signature) IN
  /\ CanInvoke(i)
  /\ ~isCached(url, signature)
  /\ fetches' = [fetches EXCEPT ![i] =
       [IdleFetch EXCEPT !.pc = "awaitStatus", !.signature = signature, !.url = url]]
  /\ state' = reducer(state, first)
  /\ log' = [log EXCEPT ![i] = <<Queried("getSignatureStatus"), Dispatched(first)>>]
  /\ UNCHANGED <<cluster, superseded, cleared, effectPending, applied>>

\* a call for any other pair: dispatch, then await getSignatureStatus
FetchQuery(i, signature, url) ==
  LET first == FetchSignatureAction(url, signature) IN
  /\ CanInvoke(i)
  /\ ~isCached(url, signature)
  /\ fetches' = [fetches EXCEPT ![i] =
       [IdleFetch EXCEPT !.pc = "awaitStatus", !.signature = signature, !.url = url]]
  /\ state' = reducer(state, first)
  /\ log' = [log EXCEPT ![i] = <<Dispatched(first), Queried("getSignatureStatus")>>]
  /\ UNCHANGED <<cluster, superseded, cleared, effectPending, applied>>

\* the closing dispatch of UpdateStatus by invocation i, which then returns
Finish(i, f, outcome, fetchStatus, info) ==
  LET update == UpdateStatusAction(f.url, f.signature, fetchStatus, info) IN
  /\ fetches' = [fetches EXCEPT ![i] = [f EXCEPT !.pc = "done"]]
  /\ superseded' = superseded \ {i}
  /\ cleared' = cleared \ {i}
  /\ state' = reducer(state, update)
  /\ log' = [log EXCEPT ![i] = @ \o <<outcome, Dispatched(update)>>]
  /\ UNCHANGED <<cluster, effectPending, applied>>

\* a rejection whose catch leaves fetchStatus at Fetched
StatusFailedAsFetched(i) ==
  /\ fetches[i].pc = "awaitStatus"
  /\ Finish(i, fetches[i], Rejected("getSignatureStatus"), Fetched, Undefined)

\* getSignatureStatus rejects: the outer catch
StatusFailed(i) ==
  /\ fetches[i].pc = "awaitStatus"
  /\ Finish(i, fetches[i], Rejected("getSignatureStatus"), FetchFailed, Undefined)

\* a null value treated as a failure
StatusNotFoundAsFailed(i) ==
  /\ fetches[i].pc = "awaitStatus"
  /\ Finish(i, [fetches[i] EXCEPT !.value = Null],
            Resolved("getSignatureStatus", Null), FetchFailed, Undefined)

\* a null value that makes the function return without its UpdateStatus
StatusNotFoundReturns(i) ==
  /\ fetches[i].pc = "awaitStatus"
  /\ fetches' = [fetches EXCEPT ![i] = [@ EXCEPT !.pc = "done", !.value = Null]]
  /\ log' = [log EXCEPT ![i] = @ \o <<Resolved("getSignatureStatus", Null)>>]
  /\ superseded' = superseded \ {i}
  /\ cleared' = cleared \ {i}
  /\ UNCHANGED <<state, cluster, effectPending, applied>>

\* getSignatureStatus resolves with value null
StatusNotFound(i) ==
  /\ fetches[i].pc = "awaitStatus"
  /\ Finish(i, [fetches[i] EXCEPT !.value = Null],
            Resolved("getSignatureStatus", Null), Fetched, Undefined)

\* getSignatureStatus resolves with a status: await getBlockTime(value.slot)
StatusFound(i, value) ==
  /\ fetches[i].pc = "awaitStatus"
  /\ value # Null
  /\ fetches' = [fetches EXCEPT ![i] =
       [@ EXCEPT !.pc = "awaitBlockTime", !.value = value]]
  /\ log' = [log EXCEPT ![i] =
       @ \o <<Resolved("getSignatureStatus", value), Queried("getBlockTime")>>]
  /\ UNCHANGED <<state, cluster, superseded, cleared, effectPending, applied>>

\* a getBlockTime rejection that reaches the outer catch
BlockTimeFailedAsFailure(i) ==
  /\ fetches[i].pc = "awaitBlockTime"
  /\ Finish(i, fetches[i], Rejected("getBlockTime"), FetchFailed, Undefined)

\* a getBlockTime rejection that leaves the function without a dispatch
BlockTimeFailedEscapes(i) ==
  /\ fetches[i].pc = "awaitBlockTime"
  /\ fetches' = [fetches EXCEPT ![i] = [@ EXCEPT !.pc = "escaped"]]
  /\ log' = [log EXCEPT ![i] = @ \o <<Rejected("getBlockTime")>>]
  /\ superseded' = superseded \ {i}
  /\ cleared' = cleared \ {i}
  /\ UNCHANGED <<state, cluster, effectPending, applied>>

\* a getBlockTime rejection reported as FetchFailed with the info already built
BlockTimeFailedKeepsInfo(i) ==
  /\ fetches[i].pc = "awaitBlockTime"
  /\ Finish(i, fetches[i], Rejected("getBlockTime"), FetchFailed,
            ResolveInfo(fetches[i].value, fetches[i].blockTime))

\* getBlockTime rejects: the inner catch leaves blockTime null
BlockTimeFailed(i) ==
  /\ fetches[i].pc = "awaitBlockTime"
  /\ Finish(i, fetches[i], Rejected("getBlockTime"), Fetched,
            ResolveInfo(fetches[i].value, fetches[i].blockTime))

\* getBlockTime resolves
BlockTimeReturned(i, blockTime) ==
  /\ fetches[i].pc = "awaitBlockTime"
  /\ Finish(i, [fetches[i] EXCEPT !.blockTime = blockTime],
            Resolved("getBlockTime", blockTime), Fetched,
            ResolveInfo(fetches[i].value, blockTime))

\* ------------------------------------------------------------------- Next
Next ==
  \/ \E status \in ClusterStatus, url \in Urls : ClusterUpdate(status, url)
  \/ RunEffect
  \/ \E i \in Fetches, s \in Signatures, u \in Urls : FetchCached(i, s, u)
  \/ \E i \in Fetches, s \in Signatures, u \in Urls : FetchQuery(i, s, u)
  \/ \E i \in Fetches : StatusFailed(i)
  \/ \E i \in Fetches : StatusNotFound(i)
  \/ \E i \in Fetches, value \in StatusValues : StatusFound(i, value)
  \/ \E i \in Fetches : BlockTimeFailed(i)
  \/ \E i \in Fetches, blockTime \in BlockTimeValues : BlockTimeReturned(i, blockTime)

Spec == Init /\ [][Next]_vars

\* ------------------------------------- one fetch against the wide responses
NextOneFetch ==
  \/ \E status \in ClusterStatus, url \in Urls : ClusterUpdate(status, url)
  \/ RunEffect
  \/ \E s \in Signatures, u \in Urls : FetchCached(1, s, u)
  \/ \E s \in Signatures, u \in Urls : FetchQuery(1, s, u)
  \/ StatusFailed(1)
  \/ StatusNotFound(1)
  \/ \E value \in WideStatusValues : StatusFound(1, value)
  \/ BlockTimeFailed(1)
  \/ \E blockTime \in BlockTimeValues : BlockTimeReturned(1, blockTime)

OneFetchSpec == Init /\ [][NextOneFetch]_vars

\* an awaited query resolves or rejects
StatusResponds(i) ==
  \/ StatusFailed(i)
  \/ StatusNotFound(i)
  \/ \E value \in WideStatusValues : StatusFound(i, value)
BlockTimeResponds(i) ==
  \/ BlockTimeFailed(i)
  \/ \E blockTime \in BlockTimeValues : BlockTimeReturned(i, blockTime)

\* the single fetch, with every awaited query eventually answered
FairOneFetchSpec ==
  /\ OneFetchSpec
  /\ WF_vars(StatusResponds(1))
  /\ WF_vars(BlockTimeResponds(1))

\* ------------------------------------------------- the reducer on its own
\* the info values an UpdateStatus action may carry
InfoValues ==
  {Undefined, CACHED_STATUSES["s1"],
   ResolveInfo(StatusValue(Num(2), Str("err"), Num(0)), Null)}

\* every Action value over the model's domains
Actions ==
  {ClearAction(u) : u \in Urls}
  \cup {FetchSignatureAction(u, s) : u \in Urls, s \in Signatures}
  \cup {UpdateStatusAction(u, s, f, info) :
          u \in Urls, s \in Signatures, f \in FetchStatus, info \in InfoValues}

\* reducer(state, action) for an arbitrary action
Apply(action) ==
  /\ state' = reducer(state, action)
  /\ applied' = [action |-> action, before |-> state]
  /\ UNCHANGED <<cluster, fetches, log, superseded, cleared, effectPending>>

NextReducer == \E action \in Actions : Apply(action)

ReducerSpec == Init /\ [][NextReducer]_vars

\* ================================================================ claims
\* the latest direct application of the reducer, in ReducerSpec
Act == applied.action
Before == applied.before
IsApplied(type) == Act.type = type
\* the application passed the url guard
UrlMatches == Act.url = Before.url
\* records of the signatures the action does not name are as before
OthersKept ==
  \A s \in (DOMAIN Before.transactions) \ {Act.signature} :
    /\ s \in DOMAIN state.transactions
    /\ state.transactions[s] = Before.transactions[s]

\* two records agree on the signature field: both lack it or both hold the same
SameSignatureField(a, b) ==
  /\ ("signature" \in DOMAIN a) = ("signature" \in DOMAIN b)
  /\ "signature" \in DOMAIN a => a.signature = b.signature

\* C1: FetchSignature or UpdateStatus whose url differs from the store's url
\* returns the state unchanged; Clear with a different url does change it.
C1_StaleActionIgnored ==
  /\ (IsApplied(FetchSignatureType) \/ IsApplied(UpdateStatusType))
        /\ ~UrlMatches => state = Before
  /\ IsApplied(ClearType) /\ ~UrlMatches => state # Before

\* a stale action naming a signature whose record exists, or one that would create it
C1_Witness ==
  /\ IsApplied(FetchSignatureType) \/ IsApplied(UpdateStatusType)
  /\ ~UrlMatches
  /\ Before.transactions # EmptyObject
  /\ state = Before

\* C3: Clear(url) yields exactly {url, transactions: {}} whatever the prior state.
C3_ClearResets ==
  IsApplied(ClearType) =>
    state = [url |-> Act.url, transactions |-> EmptyObject]

\* a Clear of another url applied to a store that held records
C3_Witness ==
  /\ IsApplied(ClearType)
  /\ ~UrlMatches
  /\ Before.transactions # EmptyObject
  /\ state.transactions = EmptyObject

\* C4: FetchSignature under the store's url for an absent signature adds a
\* record {signature, Fetching, no info}; url and other records are unchanged.
C4_FetchSignatureCreates ==
  (IsApplied(FetchSignatureType) /\ UrlMatches
     /\ Act.signature \notin DOMAIN Before.transactions) =>
    /\ state.url = Before.url
    /\ DOMAIN state.transactions = (DOMAIN Before.transactions) \cup {Act.signature}
    /\ "signature" \in DOMAIN state.transactions[Act.signature]
    /\ state.transactions[Act.signature].signature = Act.signature
    /\ state.transactions[Act.signature].fetchStatus = Fetching
    /\ Get(state.transactions[Act.signature], "info") = Undefined
    /\ OthersKept

\* C5: FetchSignature under the store's url for a present signature resets the
\* record to Fetching with no info, keeps its signature, url and other records.
C5_FetchSignatureResets ==
  (IsApplied(FetchSignatureType) /\ UrlMatches
     /\ Act.signature \in DOMAIN Before.transactions) =>
    /\ state.url = Before.url
    /\ DOMAIN state.transactions = DOMAIN Before.transactions
    /\ SameSignatureField(state.transactions[Act.signature],
                          Before.transactions[Act.signature])
    /\ state.transactions[Act.signature].fetchStatus = Fetching
    /\ Get(state.transactions[Act.signature], "info") = Undefined
    /\ OthersKept

\* a Fetched record that carried info is reset
C5_Witness ==
  /\ IsApplied(FetchSignatureType)
  /\ UrlMatches
  /\ Act.signature \in DOMAIN Before.transactions
  /\ Before.transactions[Act.signature].fetchStatus = Fetched
  /\ Get(Before.transactions[Act.signature], "info") # Undefined
  /\ state.transactions[Act.signature].fetchStatus = Fetching

\* C6: UpdateStatus under the store's url for a present signature sets
\* fetchStatus and info to the action's values (info absent when the action
\* carries none) and leaves signature, url, key set and other records alone.
C6_UpdateStatusOverwrites ==
  (IsApplied(UpdateStatusType) /\ UrlMatches
     /\ Act.signature \in DOMAIN Before.transactions) =>
    /\ state.url = Before.url
    /\ DOMAIN state.transactions = DOMAIN Before.transactions
    /\ SameSignatureField(state.transactions[Act.signature],
                          Before.transactions[Act.signature])
    /\ state.transactions[Act.signature].fetchStatus = Act.fetchStatus
    /\ Get(state.transactions[Act.signature], "info") = Act.info
    /\ OthersKept

\* an UpdateStatus without info applied to a record that carried info
C6_Witness ==
  /\ IsApplied(UpdateStatusType)
  /\ UrlMatches
  /\ Act.signature \in DOMAIN Before.transactions
  /\ Get(Before.transactions[Act.signature], "info") # Undefined
  /\ Act.info = Undefined
  /\ Act.fetchStatus # Before.transactions[Act.signature].fetchStatus
  /\ Get(state.transactions[Act.signature], "info") = Undefined

\* C7: UpdateStatus under the store's url for a signature without a record
\* leaves the state unchanged, whereas FetchSignature creates the record.
C7_UpdateStatusUnknownDropped ==
  /\ (IsApplied(UpdateStatusType) /\ UrlMatches
        /\ Act.signature \notin DOMAIN Before.transactions) => state = Before
  /\ (IsApplied(FetchSignatureType) /\ UrlMatches
        /\ Act.signature \notin DOMAIN Before.transactions) =>
       Act.signature \in DOMAIN state.transactions

\* ------------------------------------------------ fetches and the provider
\* invocation i dispatches its UpdateStatus in this step
Finishes(i) == fetches[i].pc # "done" /\ fetches'[i].pc = "done"

\* the dispatches of invocation i, in order
DispatchesOf(i) == SelectSeq(log[i], LAMBDA e : e.ev = "dispatch")

\* invocation i logged entry e
Logged(i, e) == \E k \in 1..Len(log[i]) : log[i][k] = e

\* the last entry of invocation i's log is the dispatch of this UpdateStatus
EndsWithUpdate(i, fetchStatus, info) ==
  /\ log[i] # <<>>
  /\ log[i][Len(log[i])] =
       Dispatched(UpdateStatusAction(fetches[i].url, fetches[i].signature,
                                     fetchStatus, info))

\* C2 as stated: once a Clear of another url was applied during a fetch, the
\* fetch's UpdateStatus leaves the store unchanged under every interleaving.
C2_Original ==
  [][\A i \in Fetches : (i \in superseded /\ Finishes(i)) => state' = state]_vars

\* C2 (amended): once a Clear of another url was applied during a fetch, the
\* fetch's UpdateStatus leaves the store unchanged whenever, at that dispatch,
\* the store's url differs from the fetch's url.
C2_StaleUpdateDropped ==
  [][\A i \in Fetches :
       (/\ i \in superseded
        /\ Finishes(i)
        /\ state.url # fetches[i].url)
       => state' = state]_vars

\* a superseded fetch awaits its last response while the store, under
\* another url, holds a record of the same signature
C2_Witness ==
  \E i \in superseded :
    /\ InFlight(i)
    /\ state.url # fetches[i].url
    /\ fetches[i].signature \in DOMAIN state.transactions

\* C8: an invocation's first log entry is the dispatch of FetchSignature(url,
\* signature), before any query; while in flight that is its only dispatch;
\* once returned it has dispatched exactly one more action, an UpdateStatus
\* of the same url and signature, as its last step.
C8_DispatchOrder ==
  \A i \in Fetches :
    LET f == fetches[i]
        first == Dispatched(FetchSignatureAction(f.url, f.signature))
        d == DispatchesOf(i)
    IN
    /\ f.pc \in {"idle", "awaitStatus", "awaitBlockTime", "done"}
    /\ f.pc = "idle" => log[i] = <<>>
    /\ f.pc # "idle" => log[i] # <<>> /\ log[i][1] = first
    /\ InFlight(i) => d = <<first>>
    /\ f.pc = "done" =>
         /\ Len(d) = 2
         /\ d[1] = first
         /\ d[2].action.type = UpdateStatusType
         /\ d[2].action.url = f.url
         /\ d[2].action.signature = f.signature
         /\ log[i][Len(log[i])] = d[2]

\* a fetch that queried both services has returned
C8_Witness ==
  \E i \in Fetches :
    /\ fetches[i].pc = "done"
    /\ Logged(i, Queried("getSignatureStatus"))
    /\ Logged(i, Queried("getBlockTime"))
    /\ Len(DispatchesOf(i)) = 2

\* C9: when getSignatureStatus rejects, the fetch returns having dispatched
\* UpdateStatus(FetchFailed, no info) and having issued no getBlockTime query.
C9_PrimaryFailure ==
  \A i \in Fetches :
    Logged(i, Rejected("getSignatureStatus")) =>
      /\ fetches[i].pc = "done"
      /\ EndsWithUpdate(i, FetchFailed, Undefined)
      /\ ~Logged(i, Queried("getBlockTime"))
      /\ Len(DispatchesOf(i)) = 2

\* a fetch whose status query was rejected
C9_Witness ==
  \E i \in Fetches :
    /\ Logged(i, Rejected("getSignatureStatus"))
    /\ fetches[i].pc = "done"

\* C10: when getSignatureStatus resolves with no match, the fetch dispatches
\* UpdateStatus(Fetched, no info) and issues no getBlockTime query.
C10_NotFound ==
  \A i \in Fetches :
    Logged(i, Resolved("getSignatureStatus", Null)) =>
      /\ fetches[i].pc = "done"
      /\ EndsWithUpdate(i, Fetched, Undefined)
      /\ ~Logged(i, Queried("getBlockTime"))

\* a fetch whose status query found no transaction
C10_Witness ==
  \E i \in Fetches :
    /\ Logged(i, Resolved("getSignatureStatus", Null))
    /\ fetches[i].pc = "done"
    /\ fetches[i].value = Null

\* the UpdateStatus action invocation i dispatched last
LastUpdate(i) == log[i][Len(log[i])].action

\* C11: when getBlockTime rejects after a match, the fetch ends with
\* UpdateStatus(Fetched, info) where info.timestamp is "unavailable" and slot,
\* confirmations and result come from the status response; never FetchFailed.
C11_BlockTimeFailure ==
  \A i \in Fetches :
    Logged(i, Rejected("getBlockTime")) =>
      LET value == fetches[i].value
          u == LastUpdate(i)
      IN
      /\ fetches[i].pc = "done"
      /\ log[i][Len(log[i])].ev = "dispatch"
      /\ u.type = UpdateStatusType
      /\ u.fetchStatus = Fetched
      /\ u.info # Undefined
      /\ u.info.timestamp = Str("unavailable")
      /\ u.info.slot = value.slot
      /\ u.info.result = [err |-> value.err]
      /\ \/ u.info.confirmations = value.confirmations
         \/ /\ value.confirmations \in {Null, Undefined}
            /\ u.info.confirmations = Str("max")

\* a fetch of a failed transaction whose block-time query was rejected
C11_Witness ==
  \E i \in Fetches :
    /\ Logged(i, Rejected("getBlockTime"))
    /\ fetches[i].pc = "done"
    /\ fetches[i].value.err = Str("err")
    /\ LastUpdate(i).info.slot = Num(2)

\* C12: for every matched status response the dispatched info.confirmations
\* is the response's confirmations when that is a number, 0 included, and
\* "max" when it is null or absent.
C12_Confirmations ==
  \A i \in Fetches :
    (fetches[i].pc = "done" /\ fetches[i].value \notin {Undefined, Null}) =>
      LET c == fetches[i].value.confirmations
          info == LastUpdate(i).info
      IN
      /\ info # Undefined
      /\ c \in {Num(k) : k \in 0..MaxConfirmations} => info.confirmations = c
      /\ c \in {Null, Undefined} => info.confirmations = Str("max")

\* a matched response with 0 confirmations has been resolved
C12_Witness ==
  \E i \in Fetches :
    /\ fetches[i].pc = "done"
    /\ fetches[i].value \notin {Undefined, Null}
    /\ fetches[i].value.confirmations = Num(0)
    /\ LastUpdate(i).info.confirmations = Num(0)

\* C13: a fetch of a pair of the fixture cache issues no query and dispatches
\* FetchSignature and UpdateStatus(Fetched, the fixture's info) back to back:
\* it is never seen between the two, so nothing can be applied between them.
C13_CachedFetch ==
  \A i \in Fetches :
    (fetches[i].pc # "idle" /\ isCached(fetches[i].url, fetches[i].signature)) =>
      /\ fetches[i].pc = "done"
      /\ log[i] =
           <<Dispatched(FetchSignatureAction(fetches[i].url, fetches[i].signature)),
             Dispatched(UpdateStatusAction(fetches[i].url, fetches[i].signature,
                          Fetched, CACHED_STATUSES[fetches[i].signature]))>>

\* a cached fetch made under the store's url while another fetch is awaiting
C13_Witness ==
  \E i, j \in Fetches :
    /\ fetches[i].pc = "done"
    /\ isCached(fetches[i].url, fetches[i].signature)
    /\ InFlight(j)
    /\ state.url = fetches[i].url
    /\ fetches[i].signature \in DOMAIN state.transactions
    /\ state.transactions[fetches[i].signature].fetchStatus = Fetched
    /\ Get(state.transactions[fetches[i].signature], "info") =
         CACHED_STATUSES[fetches[i].signature]

\* invocation i makes its call and suspends in this step
Starts(i) == fetches[i].pc = "idle" /\ fetches'[i].pc = "awaitStatus"

\* invocations i and j are for the same signature and url
SamePair(i, j) ==
  /\ i # j
  /\ fetches[i].signature = fetches[j].signature
  /\ fetches[i].url = fetches[j].url

\* the store's record of sig shows this fetchStatus and info
RecordShows(st, sig, fetchStatus, info) ==
  /\ sig \in DOMAIN st.transactions
  /\ st.transactions[sig].fetchStatus = fetchStatus
  /\ Get(st.transactions[sig], "info") = info

\* C14: of two fetches of one signature under the store's url, whichever
\* dispatches its UpdateStatus on the existing record leaves its own
\* fetchStatus and info there, whether it was started first or second; and the
\* later call's FetchSignature resets the record to Fetching without info,
\* even when the earlier fetch has already completed.
C14_LastWriteWins ==
  [][\A i, j \in Fetches :
       /\ (/\ InFlight(i) /\ Finishes(i)
           /\ fetches[j].pc # "idle"
           /\ SamePair(i, j)
           /\ fetches[i].url = state.url
           /\ fetches[i].signature \in DOMAIN state.transactions)
          => RecordShows(state', fetches[i].signature,
                         LastUpdate(i)'.fetchStatus, LastUpdate(i)'.info)
       /\ (/\ Starts(i)
           /\ fetches[j].pc # "idle"
           /\ i # j
           /\ fetches'[i].signature = fetches[j].signature
           /\ fetches'[i].url = fetches[j].url
           /\ fetches'[i].url = state.url)
          => RecordShows(state', fetches'[i].signature, Fetching, Undefined)
    ]_vars

\* both fetches of one signature have returned and the record shows the
\* result of the one started first, which differs from the other's
C14_Witness ==
  /\ fetches[1].pc = "done"
  /\ fetches[2].pc = "done"
  /\ SamePair(1, 2)
  /\ fetches[1].url = state.url
  /\ Logged(1, Queried("getSignatureStatus"))
  /\ LastUpdate(1) # LastUpdate(2)
  /\ RecordShows(state, fetches[1].signature,
                 LastUpdate(1).fetchStatus, LastUpdate(1).info)

\* C15: no step of a fetch changes the record of a signature other than its
\* own, and a fetch made under the store's url with no Clear since its call
\* leaves its own fetchStatus and info in its signature's record; so fetches
\* of different signatures each end with their own result in every interleaving.
C15_IndependentSignatures ==
  [][\A i \in Fetches :
       /\ fetches'[i] # fetches[i] =>
            \A s \in (DOMAIN state.transactions) \ {fetches'[i].signature} :
              /\ s \in DOMAIN state'.transactions
              /\ state'.transactions[s] = state.transactions[s]
       /\ (/\ InFlight(i) /\ Finishes(i)
           /\ i \notin cleared
           /\ fetches[i].url = state.url)
          => RecordShows(state', fetches[i].signature,
                         LastUpdate(i)'.fetchStatus, LastUpdate(i)'.info)
    ]_vars

\* the fetch started second has returned while the first, for another
\* signature of the same url, still awaits: each record shows its own fetch
C15_Witness ==
  /\ InFlight(1)
  /\ fetches[2].pc = "done"
  /\ fetches[1].signature # fetches[2].signature
  /\ fetches[1].url = state.url
  /\ fetches[2].url = state.url
  /\ 1 \notin cleared
  /\ Logged(2, Queried("getBlockTime"))
  /\ RecordShows(state, fetches[1].signature, Fetching, Undefined)
  /\ RecordShows(state, fetches[2].signature,
                 LastUpdate(2).fetchStatus, LastUpdate(2).info)

\* C16: if every awaited query eventually resolves or rejects, every
\* invocation that was made eventually returns having dispatched its
\* UpdateStatus, whichever path it takes.
C16_EveryFetchCompletes ==
  \A i \in Fetches :
    (fetches[i].pc # "idle") ~>
      (/\ fetches[i].pc = "done"
       /\ log[i][Len(log[i])].ev = "dispatch"
       /\ LastUpdate(i).type = UpdateStatusType)

\* a fetch has returned after a rejected block-time query although the
\* store had moved to another url meanwhile
C16_Witness ==
  \E i \in Fetches :
    /\ fetches[i].pc = "done"
    /\ Logged(i, Rejected("getBlockTime"))
    /\ state.url # fetches[i].url
    /\ LastUpdate(i).type = UpdateStatusType

\* the effect of the latest render runs in this step
EffectRuns == effectPending /\ ~effectPending'

\* C17: every change of the cluster schedules the provider's effect; the
\* effect, run while the cluster is Connecting with url u, leaves the store at
\* {url: u, transactions: {}}, and run under any other status leaves the store
\* as it is; and a record disappears from the store only in such a clearing run.
C17_ClearOnConnecting ==
  [][/\ cluster' # cluster => effectPending'
     /\ EffectRuns =>
          IF cluster.status = Connecting
          THEN state' = [url |-> cluster.url, transactions |-> EmptyObject]
          ELSE state' = state
     /\ (\E s \in DOMAIN state.transactions : s \notin DOMAIN state'.transactions) =>
          /\ EffectRuns
          /\ cluster.status = Connecting
          /\ state'.transactions = EmptyObject
    ]_vars

\* the cluster is Connecting, its effect has run and emptied the store while
\* a fetch made for that same url is still awaiting
C17_Witness ==
  /\ cluster.status = Connecting
  /\ ~effectPending
  /\ state = [url |-> cluster.url, transactions |-> EmptyObject]
  /\ \E i \in cleared :
       /\ i \notin superseded
       /\ fetches[i].url = cluster.url

\* the records of the store
Records == {state.transactions[s] : s \in DOMAIN state.transactions}

\* C18: in every state reached by Clears and fetches, a record carries info
\* only if its fetchStatus is Fetched.
C18_InfoOnlyWhenFetched ==
  \A r \in Records : Get(r, "info") # Undefined => r.fetchStatus = Fetched

\* the store holds a Fetched record with info next to a FetchFailed record
C18_Witness ==
  /\ \E r \in Records : r.fetchStatus = Fetched /\ Get(r, "info") # Undefined
  /\ \E r \in Records : r.fetchStatus = FetchFailed /\ Get(r, "info") = Undefined

\* C19: every Fetched or FetchFailed record of the store shows the
\* UpdateStatus of a returned fetch of that signature whose url is the
\* store's current url.
C19_NoCrossCluster ==
  \A s \in DOMAIN state.transactions :
    state.transactions[s].fetchStatus \in {Fetched, FetchFailed} =>
      \E i \in Fetches :
        /\ fetches[i].pc = "done"
        /\ fetches[i].signature = s
        /\ fetches[i].url = state.url
        /\ LastUpdate(i) =
             UpdateStatusAction(state.url, s, state.transactions[s].fetchStatus,
                                Get(state.transactions[s], "info"))

\* a fetch for another url has returned with a different result, and the
\* record still shows the result of the fetch for the store's url
C19_Witness ==
  \E i, j \in Fetches :
    /\ fetches[i].pc = "done"
    /\ fetches[j].pc = "done"
    /\ fetches[i].signature = fetches[j].signature
    /\ fetches[i].url = state.url
    /\ fetches[j].url # state.url
    /\ LastUpdate(j).fetchStatus # LastUpdate(i).fetchStatus
    /\ RecordShows(state, fetches[i].signature,
                   LastUpdate(i).fetchStatus, LastUpdate(i).info)

\* C20: a record is Fetching only while some invocation for its signature and
\* the store's url has dispatched FetchSignature and not yet UpdateStatus; so
\* when no invocation is awaiting, no record is Fetching.
C20_NoStuckFetching ==
  /\ \A s \in DOMAIN state.transactions :
       state.transactions[s].fetchStatus = Fetching =>
         \E i \in Fetches :
           /\ InFlight(i)
           /\ fetches[i].signature = s
           /\ fetches[i].url = state.url
           /\ log[i][1] = Dispatched(FetchSignatureAction(state.url, s))
  /\ (\A i \in Fetches : ~InFlight(i)) =>
       \A r \in Records : r.fetchStatus # Fetching

\* every invocation was made and has returned, and the store holds the
\* record of one that went through the status query
C20_Witness ==
  /\ \A i \in Fetches : fetches[i].pc = "done"
  /\ \E i \in Fetches :
       /\ Logged(i, Queried("getSignatureStatus"))
       /\ fetches[i].url = state.url
       /\ fetches[i].signature \in DOMAIN state.transactions
  /\ \A r \in Records : r.fetchStatus # Fetching

====
